---- MODULE Spec2Model ----
(***************************************************************************)
(* Model of lw_math (lw_math.c / lw_math.h): fixed-point conversions, the  *)
(* table-driven sine/cosine evaluator, the Newton-Raphson integer square   *)
(* root and the Clarke, Park and inverse Park transforms.                  *)
(*                                                                         *)
(* The library is a set of pure functions.  Each specification below is a  *)
(* caller that draws the arguments of one call (Init) and then runs the    *)
(* call (one action per function; the square root is also modelled one     *)
(* loop iteration per step).                                               *)
(***************************************************************************)
EXTENDS Integers, Sequences, FiniteSets, TLC

VARIABLES
    pc,                      \* position of the caller / of the running function
    args,                    \* the arguments of the call (a record)
    ret,                     \* the value returned by the call
    Local_Vector_Components, \* lw_math_park / lw_math_rev_park: the local trig pair
    rev,                     \* the value lw_math_rev_park returned
    wtemproot,               \* lw_math_sqrt: current guess
    wtemprootnew,            \* lw_math_sqrt: next guess
    biter,                   \* lw_math_sqrt: iteration counter
    steps                    \* history: Newton steps performed, with their divisors

vars == << pc, args, ret, Local_Vector_Components, rev,
           wtemproot, wtemprootnew, biter, steps >>

(***************************************************************************)
(* C integer arithmetic                                                    *)
(***************************************************************************)
INT16_MAX == 32767
INT32_MAX == 2147483647
INT32_MIN == -INT32_MAX - 1

Int16 == -32768 .. 32767

Abs(x) == IF x < 0 THEN -x ELSE x

\* C's integer division: the quotient is truncated toward zero.
CDiv(a, b) ==
    IF (a >= 0) = (b > 0)
    THEN Abs(a) \div Abs(b)
    ELSE -(Abs(a) \div Abs(b))

\* int32_t addition and subtraction: the sum modulo 2^32, reinterpreted as
\* signed (written so that no intermediate value leaves 32 bits).
Add32(a, b) ==
    IF b > 0 /\ a > INT32_MAX - b
    THEN ((a - INT32_MAX) - 1) + ((b - INT32_MAX) - 1)
    ELSE IF b < 0 /\ a < INT32_MIN - b
    THEN ((a + INT32_MAX) + 1) + ((b + INT32_MAX) + 1)
    ELSE a + b

Sub32(a, b) ==
    IF b = INT32_MIN
    THEN Add32(Add32(a, INT32_MAX), 1)
    ELSE Add32(a, -b)

\* Conversion to intN_t / uintN_t: the value modulo 2^N.
ToInt16(x) == ((x + 32768) % 65536) - 32768
ToUint16(x) == x % 65536
ToUint8(x) == x % 256

\* Bitwise AND of two non-negative integers.
RECURSIVE BitAnd(_, _)
BitAnd(x, y) ==
    IF x = 0 \/ y = 0
    THEN 0
    ELSE (x % 2) * (y % 2) + 2 * BitAnd(x \div 2, y \div 2)

\* Values of the variables a specification does not use.
NoValue == [none |-> TRUE]
SqrtIdle ==
    /\ wtemproot = 0
    /\ wtemprootnew = 0
    /\ biter = 0
    /\ steps = << >>
ParkIdle ==
    /\ Local_Vector_Components = NoValue
    /\ rev = NoValue

(***************************************************************************)
(* lw_math_fix_2_int, lw_math_fix_2_int_round                              *)
(*                                                                         *)
(* Both compute in `long` (the operand 1L << q).  long_bits is the width   *)
(* of long in the build: 32 (the Cortex-M targets the source names) or 64. *)
(* A signed overflow of a 32 bit long is undefined: the outcomes modelled  *)
(* are the wrapped value and the value exact arithmetic gives.  With a 64  *)
(* bit long the sum is exact and is converted to fix_t (int32_t) when it   *)
(* is passed on, which keeps its low 32 bits.                              *)
(***************************************************************************)
\* floor(f / d) for d >= 1.
FloorDiv(f, d) == f \div d

\* lw_math_fix_2_int(f, q): the values it can return.
\* For f < 0 the exact quotient (f - d + 1) / d, d = 1L << q, has a negative
\* numerator, so C rounds it toward zero: -((d - 1 - f) \div d), which is
\* -1 - ((-1 - f) \div d); the second form stays within 32 bits.
lw_math_fix_2_int(f, q, long_bits) ==
    LET d == 2 ^ q
        exact == -1 - ((-1 - f) \div d)
    IN  IF f >= 0 THEN {CDiv(f, d)}
        ELSE IF long_bits = 32 /\ f < INT32_MIN + (d - 1)
        THEN {exact, CDiv(Add32(Sub32(f, d), 1), d)}
        ELSE {exact}

\* lw_math_fix_2_int_round(f, q): the values it can return.
lw_math_fix_2_int_round(f, q, long_bits) ==
    LET d == 2 ^ q
        half == CDiv(d, 2)
        overflows == f > INT32_MAX - half
        exact == FloorDiv(f, d) + FloorDiv((f % d) + half, d)
    IN  IF ~overflows
        THEN lw_math_fix_2_int(f + half, q, long_bits)
        ELSE IF long_bits = 32
        THEN {exact} \cup lw_math_fix_2_int(Add32(f, half), q, long_bits)
        ELSE lw_math_fix_2_int(Add32(f, half), q, long_bits)

(***************************************************************************)
(* A caller of the fixed-point conversions.                                *)
(***************************************************************************)
FixSmall == 24
FixEdge == 6

FixInputs ==
    (-FixSmall .. FixSmall)
    \cup {INT32_MIN + k : k \in 0 .. FixEdge}
    \cup {INT32_MAX - k : k \in 0 .. FixEdge}
    \cup {2 ^ 30 + k : k \in -FixEdge .. FixEdge}
    \cup {-(2 ^ 30) + k : k \in -FixEdge .. FixEdge}

InitFix ==
    /\ pc \in {"fix_2_int", "fix_2_int_round"}
    /\ args \in [f : FixInputs, q : 0 .. 30, long_bits : {32, 64}]
    /\ ret = NoValue
    /\ ParkIdle
    /\ SqrtIdle

CallFix2Int ==
    /\ pc = "fix_2_int"
    /\ ret' \in lw_math_fix_2_int(args.f, args.q, args.long_bits)
    /\ pc' = "fix_2_int_done"
    /\ UNCHANGED << args, Local_Vector_Components, rev,
                    wtemproot, wtemprootnew, biter, steps >>

CallFix2IntRound ==
    /\ pc = "fix_2_int_round"
    /\ ret' \in lw_math_fix_2_int_round(args.f, args.q, args.long_bits)
    /\ pc' = "fix_2_int_round_done"
    /\ UNCHANGED << args, Local_Vector_Components, rev,
                    wtemproot, wtemprootnew, biter, steps >>

NextFix == CallFix2Int \/ CallFix2IntRound

SpecFix == InitFix /\ [][NextFix]_vars

(***************************************************************************)
(* lw_math_trig_functions                                                  *)
(***************************************************************************)
sin_cos_table ==
  << 0, 201, 402, 603, 804, 1005, 1206, 1407,
     1608, 1809, 2009, 2210, 2410, 2611, 2811, 3012,
     3212, 3412, 3612, 3811, 4011, 4210, 4410, 4609,
     4808, 5007, 5205, 5404, 5602, 5800, 5998, 6195,
     6393, 6590, 6786, 6983, 7179, 7375, 7571, 7767,
     7962, 8157, 8351, 8545, 8739, 8933, 9126, 9319,
     9512, 9704, 9896, 10087, 10278, 10469, 10659, 10849,
     11039, 11228, 11417, 11605, 11793, 11980, 12167, 12353,
     12539, 12725, 12910, 13094, 13279, 13462, 13645, 13828,
     14010, 14191, 14372, 14553, 14732, 14912, 15090, 15269,
     15446, 15623, 15800, 15976, 16151, 16325, 16499, 16673,
     16846, 17018, 17189, 17360, 17530, 17700, 17869, 18037,
     18204, 18371, 18537, 18703, 18868, 19032, 19195, 19357,
     19519, 19680, 19841, 20000, 20159, 20317, 20475, 20631,
     20787, 20942, 21096, 21250, 21403, 21554, 21705, 21856,
     22005, 22154, 22301, 22448, 22594, 22739, 22884, 23027,
     23170, 23311, 23452, 23592, 23731, 23870, 24007, 24143,
     24279, 24413, 24547, 24680, 24811, 24942, 25072, 25201,
     25329, 25456, 25582, 25708, 25832, 25955, 26077, 26198,
     26319, 26438, 26556, 26674, 26790, 26905, 27019, 27133,
     27245, 27356, 27466, 27575, 27683, 27790, 27896, 28001,
     28105, 28208, 28310, 28411, 28510, 28609, 28706, 28803,
     28898, 28992, 29085, 29177, 29268, 29358, 29447, 29534,
     29621, 29706, 29791, 29874, 29956, 30037, 30117, 30195,
     30273, 30349, 30424, 30498, 30571, 30643, 30714, 30783,
     30852, 30919, 30985, 31050, 31113, 31176, 31237, 31297,
     31356, 31414, 31470, 31526, 31580, 31633, 31685, 31736,
     31785, 31833, 31880, 31926, 31971, 32014, 32057, 32098,
     32137, 32176, 32213, 32250, 32285, 32318, 32351, 32382,
     32412, 32441, 32469, 32495, 32521, 32545, 32567, 32589,
     32609, 32628, 32646, 32663, 32678, 32692, 32705, 32717,
     32728, 32737, 32745, 32752, 32757, 32761, 32765, 32766 >>

\* sin_cos_table[i] with C's zero-based index.
Table(i) == sin_cos_table[i + 1]

SIN_MASK == 768
U0_90 == 512
U90_180 == 768
U180_270 == 0
U270_360 == 256

\* Mutant of TrigIndex: the remap of the signed angle by 32768 is forgotten.
TrigIndex_NoOffset(angle) == ToUint16(angle) \div 64

\* The 10 bit index: shindex, converted to uint16_t, divided by 64.
TrigIndex(angle) == ToUint16(32768 + angle) \div 64

\* Mutant of TrigSwitch: a mask one bit too wide (0x0380).
TrigSwitch_WideMask(angle) == BitAnd(ToUint16(TrigIndex(angle)), 896)

\* The value the switch dispatches on.
TrigSwitch(angle) == BitAnd(ToUint16(TrigIndex(angle)), SIN_MASK)

\* The table index of the direct and of the mirrored lookup.
TrigDirect(uhindex) == ToUint8(uhindex)
\* Mutant of TrigMirror: mirrored about 256 (0x100) instead of 255 (0xFF).
TrigMirror_OffByOne(uhindex) == ToUint8(256 - ToUint8(uhindex))

TrigMirror(uhindex) == ToUint8(255 - ToUint8(uhindex))

\* The values an uninitialised int16_t field can hold (a sample of them).
Indeterminate == {-32768, -1, 0, 32767}

\* Which case of the switch runs.
TrigCase(angle) ==
    LET sw == TrigSwitch(angle)
    IN  IF sw = U0_90 THEN "U0_90"
        ELSE IF sw = U90_180 THEN "U90_180"
        ELSE IF sw = U180_270 THEN "U180_270"
        ELSE IF sw = U270_360 THEN "U270_360"
        ELSE "default"

\* The pairs lw_math_trig_functions(angle) can return: one pair in each of
\* the four cases; in the default case local_components is returned
\* uninitialised.
lw_math_trig_functions(angle) ==
    LET uhindex == TrigIndex(angle)
        c == TrigCase(angle)
    IN  IF c = "U0_90" THEN
            {[sin |-> Table(TrigDirect(uhindex)),
              cos |-> Table(TrigMirror(uhindex))]}
        ELSE IF c = "U90_180" THEN
            {[sin |-> Table(TrigMirror(uhindex)),
              cos |-> -Table(TrigDirect(uhindex))]}
        ELSE IF c = "U180_270" THEN
            {[sin |-> -Table(TrigDirect(uhindex)),
              cos |-> -Table(TrigMirror(uhindex))]}
        ELSE IF c = "U270_360" THEN
            {[sin |-> -Table(TrigMirror(uhindex)),
              cos |-> Table(TrigDirect(uhindex))]}
        ELSE [sin : Indeterminate, cos : Indeterminate]

(***************************************************************************)
(* A caller of lw_math_trig_functions: every int16 angle.                  *)
(***************************************************************************)
InitTrig ==
    /\ pc = "call"
    /\ args \in [angle : Int16]
    /\ ret = NoValue
    /\ ParkIdle
    /\ SqrtIdle

CallTrig ==
    /\ pc = "call"
    /\ ret' \in lw_math_trig_functions(args.angle)
    /\ pc' = "done"
    /\ UNCHANGED << args, Local_Vector_Components, rev,
                    wtemproot, wtemprootnew, biter, steps >>

NextTrig == CallTrig

SpecTrig == InitTrig /\ [][NextTrig]_vars

(***************************************************************************)
(* lw_math_clarke, lw_math_park, lw_math_rev_park                          *)
(***************************************************************************)
divSQRT_3 == 18918

\* Mutant of SaturateNudge: the clamp alone, without the step that replaces
\* -32768 by -32767.
SaturateOnly(w) ==
    IF w > INT16_MAX THEN INT16_MAX
    ELSE IF w < -32768 THEN -32768
    ELSE ToInt16(w)

\* "Check saturation": the clamp of the 32-bit quotient to int16_t, followed
\* by the replacement of -32768 by -32767.
SaturateNudge(w) ==
    LET h == IF w > INT16_MAX THEN INT16_MAX
             ELSE IF w < -32768 THEN -32768
             ELSE ToInt16(w)
    IN  IF h = -32768 THEN -32767 ELSE h

\* Mutant of clarke_wbeta_tmp: the rescaling done by an arithmetic shift
\* right of 15 bits (the instruction the source keeps in a comment).
clarke_wbeta_tmp_Shift(input) ==
    LET a_divSQRT3_tmp == divSQRT_3 * input.a
        b_divSQRT3_tmp == divSQRT_3 * input.b
    IN  Sub32(Sub32(-a_divSQRT3_tmp, b_divSQRT3_tmp), b_divSQRT3_tmp) \div 32768

\* wbeta_tmp, the 32-bit quotient lw_math_clarke computes before saturation.
clarke_wbeta_tmp(input) ==
    LET a_divSQRT3_tmp == divSQRT_3 * input.a
        b_divSQRT3_tmp == divSQRT_3 * input.b
    IN  CDiv(Sub32(Sub32(-a_divSQRT3_tmp, b_divSQRT3_tmp), b_divSQRT3_tmp),
             32768)

lw_math_clarke(input) ==
    [alpha |-> input.a, beta |-> SaturateNudge(clarke_wbeta_tmp(input))]

\* Mutant of park_wq_tmp: the two products are added instead of subtracted.
park_wq_tmp_Plus(input, t) ==
    CDiv(Add32(input.alpha * t.cos, input.beta * t.sin), 32768)

\* wqd_tmp for q and for d: the quotients lw_math_park computes before
\* saturation, from the trig pair t of theta.
park_wq_tmp(input, t) ==
    LET q_tmp_1 == input.alpha * t.cos
        q_tmp_2 == input.beta * t.sin
    IN  CDiv(Sub32(q_tmp_1, q_tmp_2), 32768)

park_wd_tmp(input, t) ==
    LET d_tmp_1 == input.alpha * t.sin
        d_tmp_2 == input.beta * t.cos
    IN  CDiv(Add32(d_tmp_1, d_tmp_2), 32768)

\* lw_math_park once Local_Vector_Components = t has been evaluated.
lw_math_park(input, t) ==
    [q |-> SaturateNudge(park_wq_tmp(input, t)),
     d |-> SaturateNudge(park_wd_tmp(input, t))]

\* Mutant of lw_math_rev_park: the quotients saturated and moved off -32768
\* as lw_math_clarke and lw_math_park do.
lw_math_rev_park_Saturated(input, t) ==
    [alpha |-> SaturateNudge(CDiv(Add32(input.q * t.cos, input.d * t.sin),
                                  32768)),
     beta |-> SaturateNudge(CDiv(Sub32(input.d * t.cos, input.q * t.sin),
                                 32768))]

\* lw_math_rev_park once Local_Vector_Components = t has been evaluated.
lw_math_rev_park(input, t) ==
    LET alpha_tmp1 == input.q * t.cos
        alpha_tmp2 == input.d * t.sin
        beta_tmp1 == input.q * t.sin
        beta_tmp2 == input.d * t.cos
    IN  [alpha |-> ToInt16(CDiv(Add32(alpha_tmp1, alpha_tmp2), 32768)),
         beta |-> ToInt16(CDiv(Sub32(beta_tmp2, beta_tmp1), 32768))]

(***************************************************************************)
(* A caller of the transforms: one call of lw_math_clarke, or one call of  *)
(* lw_math_park followed by lw_math_rev_park on its result with the same   *)
(* angle.                                                                  *)
(***************************************************************************)
ClarkeGrid == 48
ParkGrid == 12
ThetaGrid == 16

\* n evenly spaced int16 values, from -32768 up.
Grid16(n) == {-32768 + k * (65536 \div n) : k \in 0 .. n - 1}

\* The ends and the middle of the int16 range.
Edge16 == {-32768, -32767, -1, 0, 1, 32766, 32767}

\* Angles at the quadrant boundaries, next to them, and at 45 degrees.
EdgeTheta ==
    {-32768, -16385, -16384, -8192, -1, 0, 63, 64, 8192, 16383, 16384, 32767}

\* Clarke inputs: a grid, the ends, and the pairs whose quotient is next to
\* the int16 limits.
ClarkeInputs ==
    LET S == Grid16(ClarkeGrid) \cup Edge16
    IN  [a : S, b : S]
        \cup [a : {32766, 32767}, b : 11990 .. 12000]
        \cup [a : {-32768, -32767}, b : -12000 .. -11990]

\* Park inputs: a grid, the ends, and the inputs whose q quotient is next to
\* the int16 minimum.
ParkInputs ==
    LET S == Grid16(ParkGrid) \cup Edge16
    IN  [alpha : S, beta : S, theta : Grid16(ThetaGrid) \cup EdgeTheta]
        \cup [alpha : {-32768}, beta : 485 .. 495, theta : {64}]

InitTransform ==
    /\ \/ pc = "clarke" /\ args \in ClarkeInputs
       \/ pc = "park" /\ args \in ParkInputs
    /\ ret = NoValue
    /\ ParkIdle
    /\ SqrtIdle

CallClarke ==
    /\ pc = "clarke"
    /\ ret' = lw_math_clarke(args)
    /\ pc' = "clarke_done"
    /\ UNCHANGED << args, Local_Vector_Components, rev,
                    wtemproot, wtemprootnew, biter, steps >>

CallPark ==
    /\ pc = "park"
    /\ \E t \in lw_math_trig_functions(args.theta) :
          /\ Local_Vector_Components' = t
          /\ ret' = lw_math_park(args, t)
    /\ pc' = "park_done"
    /\ UNCHANGED << args, rev, wtemproot, wtemprootnew, biter, steps >>

CallRevPark ==
    /\ pc = "park_done"
    /\ \E t \in lw_math_trig_functions(args.theta) :
          /\ Local_Vector_Components' = t
          /\ rev' = lw_math_rev_park(ret, t)
    /\ pc' = "rev_park_done"
    /\ UNCHANGED << args, ret, wtemproot, wtemprootnew, biter, steps >>

NextTransform == CallClarke \/ CallPark \/ CallRevPark

SpecTransform == InitTransform /\ [][NextTransform]_vars

(***************************************************************************)
(* A caller of lw_math_rev_park alone, with any (q, d) and angle.          *)
(***************************************************************************)
\* Inverse Park inputs: a grid, the ends, and the inputs whose alpha
\* quotient is next to +-32768.
RevParkInputs ==
    LET S == Grid16(ParkGrid) \cup Edge16
    IN  [q : S, d : S, theta : Grid16(ThetaGrid) \cup EdgeTheta]
        \cup [q : {-32768}, d : -495 .. -485, theta : {-32704, 64}]

InitRevPark ==
    /\ pc = "rev_park"
    /\ args \in RevParkInputs
    /\ ret = NoValue
    /\ ParkIdle
    /\ SqrtIdle

CallRevParkAlone ==
    /\ pc = "rev_park"
    /\ \E t \in lw_math_trig_functions(args.theta) :
          /\ Local_Vector_Components' = t
          /\ rev' = lw_math_rev_park(args, t)
    /\ pc' = "rev_park_returned"
    /\ UNCHANGED << args, ret, wtemproot, wtemprootnew, biter, steps >>

NextRevPark == CallRevParkAlone

SpecRevPark == InitRevPark /\ [][NextRevPark]_vars

(***************************************************************************)
(* lw_math_sqrt                                                            *)
(***************************************************************************)
\* Mutant of SqrtSeed: the two seeds exchanged.
SqrtSeed_Swapped(input) == IF input <= 2097152 THEN 8192 ELSE 128

\* The first guess.
SqrtSeed(input) == IF input <= 2097152 THEN 128 ELSE 8192

\* One Newton step: (wtemproot + input / wtemproot) / 2 in int32_t.
SqrtNewton(input, root) == CDiv(Add32(root, CDiv(input, root)), 2)

\* Mutants of SqrtContinue: the loop capped one iteration early, one late.
SqrtContinue_Cap5(b) == b < 5
SqrtContinue_Cap7(b) == b <= 6

\* The condition of the do-while loop.
SqrtContinue(b) == b < 6

\* The body of the do-while loop: the locals after one iteration.
SqrtBody(input, root, b) ==
    LET new == SqrtNewton(input, root)
    IN  IF new = root
        THEN [wtemprootnew |-> new, wtemproot |-> root, biter |-> 6]
        ELSE [wtemprootnew |-> new, wtemproot |-> new,
              biter |-> ToUint8(b + 1)]

\* The do-while loop, run to its end: the final wtemprootnew.
RECURSIVE SqrtLoop(_, _, _)
SqrtLoop(input, root, b) ==
    LET l == SqrtBody(input, root, b)
    IN  IF SqrtContinue(l.biter)
        THEN SqrtLoop(input, l.wtemproot, l.biter)
        ELSE l.wtemprootnew

lw_math_sqrt(input) ==
    IF input > 0 THEN SqrtLoop(input, SqrtSeed(input), 0) ELSE 0

(***************************************************************************)
(* Callers of lw_math_sqrt.  The inputs: the small values, the values      *)
(* around the seed boundary 2097152, the largest int32 values, and the     *)
(* neighbours of a grid of perfect squares.                                *)
(***************************************************************************)
SqrtSmall == 64
SqrtWindow == 16
RootGrid == 24
MaxRoot == 46340

SqrtPositive ==
    (0 .. SqrtSmall)
    \cup ((2097152 - SqrtWindow) .. (2097152 + SqrtWindow))
    \cup {INT32_MAX - d : d \in 0 .. SqrtWindow}
    \cup {(k * (MaxRoot \div RootGrid)) * (k * (MaxRoot \div RootGrid)) + d :
             k \in 1 .. RootGrid, d \in {-1, 0, 1}}

SqrtInputs == SqrtPositive \cup {INT32_MIN, -SqrtSmall, -1}

\* A caller that treats the call as one step: lw_math_sqrt(n * n) for every
\* n whose square is an int32, or the two calls lw_math_sqrt(x) and
\* lw_math_sqrt(y) for x <= y.
InitSqrtCall ==
    /\ \/ pc = "square" /\ args \in [n : 0 .. MaxRoot]
       \/ pc = "pair" /\ args \in {p \in [x : SqrtPositive, y : SqrtPositive] :
                                      p.x <= p.y}
    /\ ret = NoValue
    /\ ParkIdle
    /\ SqrtIdle

CallSqrtSquare ==
    /\ pc = "square"
    /\ ret' = lw_math_sqrt(args.n * args.n)
    /\ pc' = "square_done"
    /\ UNCHANGED << args, Local_Vector_Components, rev,
                    wtemproot, wtemprootnew, biter, steps >>

CallSqrtPair ==
    /\ pc = "pair"
    /\ ret' = [x |-> lw_math_sqrt(args.x), y |-> lw_math_sqrt(args.y)]
    /\ pc' = "pair_done"
    /\ UNCHANGED << args, Local_Vector_Components, rev,
                    wtemproot, wtemprootnew, biter, steps >>

NextSqrtCall == CallSqrtSquare \/ CallSqrtPair

SpecSqrtCall == InitSqrtCall /\ [][NextSqrtCall]_vars

\* lw_math_sqrt run one loop iteration per step.  wtemproot and
\* wtemprootnew are uninitialised on entry; the code writes each before it
\* reads it, so their initial value is never observed.
InitSqrt ==
    /\ pc = "sqrt"
    /\ args \in [input : SqrtInputs]
    /\ ret = NoValue
    /\ ParkIdle
    /\ SqrtIdle

\* if (input > 0) { seed } else { wtemprootnew = 0 }
SqrtEnter ==
    /\ pc = "sqrt"
    /\ IF args.input > 0
       THEN /\ wtemproot' = SqrtSeed(args.input)
            /\ pc' = "loop"
            /\ UNCHANGED wtemprootnew
       ELSE /\ wtemprootnew' = 0
            /\ pc' = "return"
            /\ UNCHANGED wtemproot
    /\ UNCHANGED << args, ret, Local_Vector_Components, rev, biter, steps >>

\* One iteration of do { ... } while (biter < 6u).
SqrtIterate ==
    /\ pc = "loop"
    /\ LET l == SqrtBody(args.input, wtemproot, biter)
       IN  /\ wtemprootnew' = l.wtemprootnew
           /\ wtemproot' = l.wtemproot
           /\ biter' = l.biter
           /\ pc' = IF SqrtContinue(l.biter) THEN "loop" ELSE "return"
    /\ steps' = Append(steps, wtemproot)
    /\ UNCHANGED << args, ret, Local_Vector_Components, rev >>

\* return (wtemprootnew);
SqrtReturn ==
    /\ pc = "return"
    /\ ret' = wtemprootnew
    /\ pc' = "sqrt_done"
    /\ UNCHANGED << args, Local_Vector_Components, rev,
                    wtemproot, wtemprootnew, biter, steps >>

NextSqrt == SqrtEnter \/ SqrtIterate \/ SqrtReturn

SpecSqrt == InitSqrt /\ [][NextSqrt]_vars

\* A call, once made, runs to its end: nothing suspends the function.
FairSpecSqrt == SpecSqrt /\ WF_vars(NextSqrt)

(***************************************************************************)
(* Properties of the transforms                                            *)
(***************************************************************************)
\* The saturated value the claim assigns to a 32-bit quotient w.
Saturated(w) ==
    IF w > 32767 THEN 32767
    ELSE IF w <= -32767 THEN -32767
    ELSE w

\* C1: clarke.beta, park.q and park.d always lie in [-32767, 32767]: each is
\* 32767 when its 32-bit quotient exceeds 32767, -32767 when the quotient is
\* <= -32767, and the quotient itself otherwise; -32768 is never returned.
C1_SaturatedOutputs ==
    /\ pc = "clarke_done" =>
        /\ ret.beta \in -32767 .. 32767
        /\ ret.beta = Saturated(clarke_wbeta_tmp(args))
    /\ pc \in {"park_done", "rev_park_done"} =>
        /\ ret.q \in -32767 .. 32767
        /\ ret.d \in -32767 .. 32767
        /\ ret.q = Saturated(park_wq_tmp(args, Local_Vector_Components))
        /\ ret.d = Saturated(park_wd_tmp(args, Local_Vector_Components))

\* C1 witness: a Park call whose q quotient is exactly -32768 returned
\* q = -32767.
C1_Witness ==
    /\ pc = "park_done"
    /\ park_wq_tmp(args, Local_Vector_Components) = -32768
    /\ ret.q = -32767

\* -(a*0x49E6) - 2*(b*0x49E6), the numerator of the Clarke quotient.
ClarkeNumerator(a, b) == -(a * 18918) - 2 * (b * 18918)

\* The Clarke call did not saturate: rescaled either way, the numerator is
\* within the range that is returned unchanged.
ClarkeUnsaturated(a, b) ==
    /\ ClarkeNumerator(a, b) \div 32768 \in -32767 .. 32767
    /\ -((-ClarkeNumerator(a, b)) \div 32768) \in -32767 .. 32767

InsideUnitCircle(alpha, beta) ==
    alpha * alpha <= 32767 * 32767 - beta * beta

\* C8: for every theta and every (alpha, beta) with alpha^2 + beta^2 <=
\* 32767^2, Park does not saturate, and inverse Park applied to its result
\* with the same theta returns (alpha', beta') within 328 of (alpha, beta).
C8_ParkRoundTrip ==
    (pc = "rev_park_done" /\ InsideUnitCircle(args.alpha, args.beta)) =>
        /\ park_wq_tmp(args, Local_Vector_Components) \in -32767 .. 32767
        /\ park_wd_tmp(args, Local_Vector_Components) \in -32767 .. 32767
        /\ ret.q = park_wq_tmp(args, Local_Vector_Components)
        /\ ret.d = park_wd_tmp(args, Local_Vector_Components)
        /\ Abs(rev.alpha - args.alpha) <= 328
        /\ Abs(rev.beta - args.beta) <= 328

\* C8 witness: a round trip of a full-scale vector at 45 degrees, returned
\* changed (by truncation) but within tolerance.
C8_Witness ==
    /\ pc = "rev_park_done"
    /\ args = [alpha |-> 32767, beta |-> 0, theta |-> 8192]
    /\ rev.alpha # args.alpha
    /\ Abs(rev.alpha - args.alpha) <= 328

\* The low 16 bits of w, read as a signed 16-bit value.
Low16Signed(w) ==
    LET u == w % 65536
    IN  IF u >= 32768 THEN u - 65536 ELSE u

\* The quotient n / 32768 rounded toward zero.
Quotient32768(n) ==
    IF n >= 0 THEN n \div 32768 ELSE -((-n) \div 32768)

\* C11: lw_math_rev_park neither saturates nor moves -32768: with (cos, sin)
\* the trig pair of theta, alpha is the low 16 bits (as signed) of
\* (q*cos + d*sin) / 32768 and beta those of (d*cos - q*sin) / 32768, so a
\* quotient outside [-32768, 32767] wraps and -32768 can be returned.
C11_RevParkWraps ==
    pc = "rev_park_returned" =>
        LET c == Local_Vector_Components.cos
            s == Local_Vector_Components.sin
            wa == Quotient32768(args.q * c + args.d * s)
            wb == Quotient32768(args.d * c - args.q * s)
        IN  /\ Local_Vector_Components \in lw_math_trig_functions(args.theta)
            /\ rev.alpha = Low16Signed(wa)
            /\ rev.beta = Low16Signed(wb)
            /\ wa > 32767 => rev.alpha = wa - 65536
            /\ wa < -32768 => rev.alpha = wa + 65536
            /\ wb > 32767 => rev.beta = wb - 65536
            /\ wb < -32768 => rev.beta = wb + 65536

\* C11 witness: an alpha quotient of 32768, one above the int16 range, came
\* back wrapped to -32768.
C11_Witness ==
    /\ pc = "rev_park_returned"
    /\ args = [q |-> -32768, d |-> -490, theta |-> -32704]
    /\ Quotient32768(args.q * Local_Vector_Components.cos
                     + args.d * Local_Vector_Components.sin) = 32768
    /\ rev.alpha = -32768

(***************************************************************************)
(* Properties of the fixed-point conversions                               *)
(***************************************************************************)
\* C9: for every int32 f (up to and including INT32_MAX) and q in 0..30,
\* lw_math_fix_2_int_round(f, q) returns floor((f + 2^q / 2) / 2^q), the
\* integer nearest to f / 2^q with ties toward +infinity, and
\* lw_math_fix_2_int(g, q) returns floor(g / 2^q) for g >= 0 and g < 0.
\* Stated for the builds whose long has 64 bits, where no step of either
\* function is undefined.
C9_RoundsToNearest ==
    args.long_bits = 64 =>
        /\ pc = "fix_2_int_done" => ret = args.f \div (2 ^ args.q)
        /\ pc = "fix_2_int_round_done" =>
              ret = (args.f \div (2 ^ args.q))
                    + (((args.f % (2 ^ args.q)) + (2 ^ args.q) \div 2)
                       \div (2 ^ args.q))

(***************************************************************************)
(* Properties of lw_math_sqrt                                              *)
(***************************************************************************)
\* C6: for every n in 0..46340, lw_math_sqrt(n*n) returns r with
\* |r - n| <= 1; in particular lw_math_sqrt(0) = 0.
C6_SqrtOfSquares ==
    pc = "square_done" =>
        /\ Abs(ret - args.n) <= 1
        /\ args.n = 0 => ret = 0

\* C6 witness: the square of 1 returned 2, one above the root, when the
\* sixth iteration ended the loop.
C6_Witness ==
    /\ pc = "square_done"
    /\ args.n = 1
    /\ ret = 2

\* C7: lw_math_sqrt is monotonic non-decreasing on non-negative inputs:
\* 0 <= x <= y implies lw_math_sqrt(x) <= lw_math_sqrt(y).
C7_SqrtMonotonic ==
    (pc = "pair_done" /\ 0 <= args.x /\ args.x <= args.y) => ret.x <= ret.y

\* C7 witness: the two inputs on either side of the seed boundary, the
\* first one stopped by the iteration cap.
C7_Witness ==
    /\ pc = "pair_done"
    /\ args = [x |-> 2097152, y |-> 2097153]
    /\ ret = [x |-> 1448, y |-> 1448]

\* The Newton step of the claim, on positive integers.
NewtonStep(input, guess) == (guess + input \div guess) \div 2

\* The state predicate of C10: the divisors used so far are the seed and its
\* successive Newton steps, each >= 1, at most 6 of them, none but the last
\* with next = guess; and the value returned.
SqrtStepsAsClaimed ==
    /\ Len(steps) <= 6
    /\ \A i \in 1 .. Len(steps) : steps[i] >= 1
    /\ pc = "loop" => wtemproot >= 1
    /\ args.input <= 0 => steps = << >>
    /\ (args.input > 0 /\ steps # << >>) =>
        /\ steps[1] = IF args.input <= 2097152 THEN 128 ELSE 8192
        /\ \A i \in 1 .. Len(steps) - 1 :
              /\ steps[i + 1] = NewtonStep(args.input, steps[i])
              /\ steps[i + 1] # steps[i]
    /\ pc = "sqrt_done" =>
        IF args.input <= 0
        THEN ret = 0
        ELSE /\ Len(steps) \in 1 .. 6
             /\ ret = NewtonStep(args.input, steps[Len(steps)])
             /\ Len(steps) < 6 => ret = steps[Len(steps)]

\* C10: lw_math_sqrt terminates for every int32 input; input <= 0 returns 0
\* with no Newton step; input > 0 starts from 128 (input <= 2097152) or 8192,
\* performs at most 6 steps next = (guess + input / guess) / 2, stops earlier
\* exactly when next = guess, returns the last next, and never divides by a
\* guess below 1.
C10_SqrtTerminates ==
    /\ [] SqrtStepsAsClaimed
    /\ <> (pc = "sqrt_done")

\* C10 witness: a call that the cap stopped after 6 steps, before it
\* converged.
C10_Witness ==
    /\ pc = "sqrt_done"
    /\ args.input = 1
    /\ steps = << 128, 64, 32, 16, 8, 4 >>
    /\ ret = 2

(***************************************************************************)
(* Properties of lw_math_trig_functions                                    *)
(***************************************************************************)
TrigCases == {U0_90, U90_180, U180_270, U270_360}
MaxAmplitude == 32766

\* C2: for every int16 angle exactly one of the four quadrant cases of the
\* switch is taken (never the default branch, so both fields are assigned),
\* and the returned sin and cos both lie in [-32766, 32766].
C2_TrigTotalAndBounded ==
    /\ Cardinality({c \in TrigCases : TrigSwitch(args.angle) = c}) = 1
    /\ TrigCase(args.angle) # "default"
    /\ pc = "done" =>
        /\ ret.sin \in -MaxAmplitude .. MaxAmplitude
        /\ ret.cos \in -MaxAmplitude .. MaxAmplitude

\* C2 witness: the call returned the most negative sine, -32766.
C2_Witness ==
    /\ pc = "done"
    /\ args.angle = -16384
    /\ ret.sin = -MaxAmplitude

\* The quarter-wave identities of the claim, stated on the angle ranges.
QuadrantFold(angle) ==
    LET k == (angle + 32768) \div 64
        i == k % 256
    IN  IF angle \in 0 .. 16383 THEN
            [sin |-> sin_cos_table[i + 1], cos |-> sin_cos_table[256 - i]]
        ELSE IF angle \in 16384 .. 32767 THEN
            [sin |-> sin_cos_table[256 - i], cos |-> -sin_cos_table[i + 1]]
        ELSE IF angle \in -32768 .. -16385 THEN
            [sin |-> -sin_cos_table[i + 1], cos |-> -sin_cos_table[256 - i]]
        ELSE
            [sin |-> -sin_cos_table[256 - i], cos |-> sin_cos_table[i + 1]]

\* C3: the returned pair follows the quadrant identities (0-90: sin = T[i],
\* cos = T[255-i]; 90-180: sin = T[255-i], cos = -T[i]; 180-270: sin = -T[i],
\* cos = -T[255-i]; 270-360: sin = -T[255-i], cos = T[i]), and so
\* trig(0) = (32766, 0), trig(16384) = (0, 32766),
\* trig(-32768) = trig(32767) = (-32766, 0) as (cos, sin).
C3_QuadrantIdentities ==
    pc = "done" =>
        /\ ret = QuadrantFold(args.angle)
        /\ args.angle = 0 => ret = [cos |-> 32766, sin |-> 0]
        /\ args.angle = 16384 => ret = [cos |-> 0, sin |-> 32766]
        /\ args.angle \in {-32768, 32767} => ret = [cos |-> -32766, sin |-> 0]

\* C3 witness: the call at the last angle of the turn, in the 90-180 case.
C3_Witness ==
    /\ pc = "done"
    /\ args.angle = 32767
    /\ ret = [cos |-> -32766, sin |-> 0]

\* sin^2 + cos^2 - 1.0, with 1.0 = 2^30 (Q2.30).
UnitDeviation(t) == (t.sin * t.sin + t.cos * t.cos) - 1073741824

\* C4 as claimed: |sin^2 + cos^2 - 2^30| <= 2^18 for every angle.
C4_Original ==
    pc = "done" => Abs(UnitDeviation(ret)) <= 262144

\* C4 as amended: |sin^2 + cos^2 - 2^30| <= 6683399 for every angle (the
\* cosine is read one table step away from the sine's complement).
C4_UnitCircleOneStep ==
    pc = "done" => Abs(UnitDeviation(ret)) <= 6683399

\* C4 witness: the call whose result is farthest from the unit circle.
C4_Witness ==
    /\ pc = "done"
    /\ args.angle = -24768
    /\ UnitDeviation(ret) = -6683399

====
